---- MODULE Spec2Model ----
(***************************************************************************)
(* Model of src/operator/numpy/np_matrix_op-inl.h: the numpy transpose,    *)
(* vstack and roll operators.                                              *)
(*                                                                         *)
(* C++ arrays are modelled as sequences; At(s, i) reads the element at the *)
(* zero-based C index i.  A tensor is a shape (sequence of dimension       *)
(* sizes) and its row-major flat data.                                     *)
(***************************************************************************)
EXTENDS Integers, Sequences, FiniteSets

VARIABLES
    pc,          \* position of the caller: "idle" or the operator that has run
    shape,       \* inputs[0].shape_ of the roll call
    axis,        \* NumpyRollParam.axis : [has_value, value]
    shift,       \* NumpyRollParam.shift.value()
    req,         \* req[0] of the roll call
    status,      \* how the call ended: "none", "noop", "fatal", "crash", "sigfpe", "launch", "done"
    assigned,    \* shifts after the assignment loops, before normalisation
    shifts,      \* shifts after the 'keep shift in a legal range' loop
    new_index,   \* the permutation table built by RollDfs
    kernel,      \* the kernel launched: "none", "RollAxisNone_forward", "RollAxis_forward"
    kshift,      \* the shift handed to the RollAxisNone_forward kernel
    out_data,    \* outputs[0] of the roll call, flat
    oob,         \* the shifts vector was indexed outside [0, ndim)
    pending,     \* work units of the launch that have not run yet
    nwrites,     \* per destination offset: how many work units wrote it
    nreads,      \* per source offset: how many work units read it
    v_num_args,  \* NumpyVstackParam.num_args
    v_inputs,    \* tensors given to NumpyVstackForward
    v_out,       \* output of NumpyVstackForward / gradient given to backward
    v_req,       \* per-slot write policy of NumpyVstackBackward
    v_grads,     \* gradient slots written by NumpyVstackBackward
    v_status,    \* "none", "fatal", "forward", "backward"
    t_req,       \* req[0] of the NumpyTranspose calls
    t_in,        \* tensor given to the first NumpyTranspose
    t_axes,      \* NumpyTransposeParam.axes : [known, value]
    t_used,      \* the permutation handed to TransposeImpl by the last call
    t_out,       \* output of the last NumpyTranspose
    t_count,     \* number of NumpyTranspose calls applied to t_in
    t_status     \* "none", "fatal", "done"

vars == <<pc, shape, axis, shift, req, status, assigned, shifts, new_index, kernel, kshift,
          out_data, oob, pending, nwrites, nreads,
          v_num_args, v_inputs, v_out, v_req, v_grads, v_status,
          t_req, t_in, t_axes, t_used, t_out, t_count, t_status>>

rollVars == <<shape, axis, shift, req, status, assigned, shifts, new_index, kernel, kshift,
              out_data, oob, pending, nwrites, nreads>>
vstackVars == <<v_num_args, v_inputs, v_out, v_req, v_grads, v_status>>
transposeVars == <<t_req, t_in, t_axes, t_used, t_out, t_count, t_status>>

----------------------------------------------------------------------------
(* Bounds of the model *)

\* largest size of one axis
MaxDim == 2
\* largest magnitude of a requested shift (exceeds MaxDim)
MaxShift == 3

\* largest number of tensors given to vstack
MaxArgs == 2

\* ranks of the roll inputs, lengths of the axis list and of the shift list
RollRanks == {1, 2}
AxisLens == {0, 1, 2}
ShiftLens == {1, 2}
\* ranks of the vstack inputs and of the transpose inputs
VstackRanks == {0, 1, 2}
TransposeRanks == {1, 2, 3}

----------------------------------------------------------------------------
(* Helpers: C arrays, TShape *)

At(s, i) == s[i + 1]

Range0(n) == 0 .. (n - 1)

RECURSIVE ProdFrom(_, _)
ProdFrom(s, k) == IF k > Len(s) THEN 1 ELSE s[k] * ProdFrom(s, k + 1)

\* TShape::Size(): the product of the dimension sizes (1 for a scalar)
Size(shp) == ProdFrom(shp, 1)

\* sequences of length n over S
SeqsOf(S, n) == [1 .. n -> S]

\* C++ '%' on signed integers truncates towards zero; b > 0
CMod(a, b) == IF a >= 0 THEN a % b ELSE -((-a) % b)

\* write policies (OpReqType)
kNullOp == "kNullOp"
kWriteTo == "kWriteTo"
kAddTo == "kAddTo"
Reqs == {kNullOp, kWriteTo, kAddTo}

\* KERNEL_ASSIGN(out, req, val)
KernelAssign(old, rq, val) ==
    IF rq = kNullOp THEN old
    ELSE IF rq = kAddTo THEN old + val
    ELSE val

\* contents of the buffers before a roll call: distinct labels per offset
InData(n) == [d \in 1 .. n |-> d]
OutInit(n) == [d \in 1 .. n |-> 100 * d]

----------------------------------------------------------------------------
(* NumpyRoll: index arithmetic *)

\* FlatShift without the correction of a negative remainder
FlatShiftNoFix(s0, input_size) == CMod(s0, input_size)

\* flatten mode: shift = shift % input_size; if (shift < 0) shift += Size()
FlatShift(s0, input_size) ==
    LET s == CMod(s0, input_size)
    IN  IF s < 0 THEN s + input_size ELSE s

\* RollAxisNone_forward::Map: the source offset read by work unit i
RollAxisNoneIndex(i, size, sh) ==
    IF i - sh < 0 THEN i - sh + size ELSE i - sh

\* if (axes[i] < 0) axes[i] += ndim
NormAxes(axes, ndim) ==
    [i \in 1 .. Len(axes) |-> IF axes[i] < 0 THEN axes[i] + ndim ELSE axes[i]]

\* the validation loop: CHECK_LT(axes[i], ndim) and CHECK_GE(axes[0], 0) for every i
AxesRejected(axes, ndim) ==
    \E i \in 1 .. Len(axes) : axes[i] >= ndim \/ axes[1] < 0

\* ShiftLenRejected that only rejects a shift list shorter than the axis list
ShiftLenRejectedShorter(psh, axes) ==
    Len(psh) # 1 /\ Len(psh) < Len(axes)

\* LOG(FATAL) << "shift and `axis` must be a tuple of the same size,"
ShiftLenRejected(psh, axes) ==
    Len(psh) # 1 /\ Len(psh) # Len(axes)

\* an assignment shifts[axes[i]] = ... lands outside the vector
IndexesOutside(axes, ndim) ==
    \E i \in 1 .. Len(axes) : axes[i] < 0 \/ axes[i] >= ndim

\* the loops shifts[axes[i]] = shift[0] / shift[i], from position i on; a store
\* outside the vector leaves the vector itself as it was
RECURSIVE AssignShifts(_, _, _, _)
AssignShifts(sh, axes, psh, i) ==
    IF i > Len(axes) THEN sh
    ELSE LET v == IF Len(psh) = 1 THEN psh[1] ELSE psh[i]
             a == axes[i]
         IN  AssignShifts(IF a >= 0 /\ a < Len(sh) THEN [sh EXCEPT ![a + 1] = v] ELSE sh,
                          axes, psh, i + 1)

\* trans_shift = shifts[i] % dim; if (trans_shift < 0) trans_shift = shifts[i] + dim
TransShift(s, dim) ==
    LET t == CMod(s, dim)
    IN  IF t < 0 THEN s + dim ELSE t

\* the 'keep shift in a legal range' loop
KeepLegal(sh, shp) ==
    [i \in 1 .. Len(shp) |-> TransShift(sh[i], shp[i])]

\* new_axis for destination index j of an axis of size dim shifted by s
NewAxis(j, dim, s) ==
    IF s # 0 THEN CMod(j + dim - s, dim) ELSE j

\* new_axes[i] = the source index along axis i of every destination index j
NewAxes(shp, sh) ==
    [i \in 1 .. Len(shp) |-> [j \in 1 .. shp[i] |-> NewAxis(j - 1, shp[i], sh[i])]]

\* mid_val before iteration i: the product of the last i dimension sizes
RECURSIVE MidVal(_, _)
MidVal(shp, i) ==
    IF i = 0 THEN 1 ELSE MidVal(shp, i - 1) * At(shp, Len(shp) - 1 - (i - 1))

\* value[i] = mid_val
Value(shp) ==
    [i \in 1 .. Len(shp) |-> MidVal(shp, i - 1)]

\* DfsStride reading value[index] instead of value[ndim - 1 - index]
DfsStrideForward(value, index, ndim) ==
    At(value, index)

\* the stride RollDfs multiplies the index of axis 'index' with
DfsStride(value, index, ndim) ==
    At(value, ndim - 1 - index)

\* RollDfs: the entries pushed to new_index by the loop over new_axes[index],
\* from its k-th element on
RECURSIVE RollDfsFrom(_, _, _, _, _, _)
RollDfsFrom(new_axes, value, index, ndim, mid, k) ==
    LET row == At(new_axes, index)
    IN  IF k > Len(row) THEN << >>
        ELSE (IF index = ndim - 1
                THEN << mid + row[k] >>
                ELSE RollDfsFrom(new_axes, value, index + 1, ndim,
                                 mid + row[k] * DfsStride(value, index, ndim), 1))
             \o RollDfsFrom(new_axes, value, index, ndim, mid, k + 1)

RollDfs(new_axes, value, index, ndim, mid) ==
    RollDfsFrom(new_axes, value, index, ndim, mid, 1)

Zeros(n) == [i \in 1 .. n |-> 0]

----------------------------------------------------------------------------
(* NumpyRollCompute *)

\* what a call has computed when it returns, aborts or reaches Kernel::Launch
Outcome(st, asg, sh, tbl, kern, ksh, ob) ==
    [status |-> st, assigned |-> asg, shifts |-> sh, new_index |-> tbl,
     kernel |-> kern, kshift |-> ksh, oob |-> ob]

\* flatten mode (param.axis has no value)
RollFlat(shp, psh) ==
    LET n == Size(shp)
        z == Zeros(Len(shp))
    IN  IF n = 0
          THEN {Outcome("sigfpe", z, z, << >>, "none", 0, FALSE)}
          ELSE {Outcome("launch", z, z, << >>, "RollAxisNone_forward",
                        FlatShift(psh[1], n), FALSE)}

\* per-axis mode, from the 'keep shift in a legal range' loop to the launch
RollTable(shp, asg, ob) ==
    LET ndim == Len(shp)
    IN  IF \E i \in 1 .. ndim : shp[i] = 0
          THEN {Outcome("sigfpe", asg, asg, << >>, "none", 0, ob)}
          ELSE LET sh == KeepLegal(asg, shp)
                   tbl == RollDfs(NewAxes(shp, sh), Value(shp), 0, ndim, 0)
               IN  {Outcome("launch", asg, sh, tbl, "RollAxis_forward", 0, ob)}

\* per-axis mode (param.axis has a value).  A store through a negative axis that
\* the validation let through is outside the shifts vector: the call either
\* crashes or goes on with the vector untouched by that store.
RollAxes(shp, paxis, psh) ==
    LET ndim == Len(shp)
        z == Zeros(ndim)
        axes == NormAxes(paxis, ndim)
    IN  IF AxesRejected(axes, ndim)
          THEN {Outcome("fatal", z, z, << >>, "none", 0, FALSE)}
        ELSE IF ShiftLenRejected(psh, axes)
          THEN {Outcome("fatal", z, z, << >>, "none", 0, FALSE)}
        ELSE LET asg == AssignShifts(z, axes, psh, 1)
                 ob == IndexesOutside(axes, ndim)
             IN  IF ob
                   THEN {Outcome("crash", asg, asg, << >>, "none", 0, TRUE)}
                        \cup RollTable(shp, asg, TRUE)
                   ELSE RollTable(shp, asg, FALSE)

\* the call after its arity checks and the zero-size test
RollBody(shp, ax, psh) ==
    IF ax.has_value THEN RollAxes(shp, ax.value, psh) ELSE RollFlat(shp, psh)

\* RollPrep without the zero-size return
RollPrepNoReturn(shp, ax, psh) == RollBody(shp, ax, psh)

\* NumpyRollCompute up to the kernel launch: if (inputs[0].Size() == 0U) return;
RollPrep(shp, ax, psh) ==
    IF Size(shp) = 0
      THEN {Outcome("noop", Zeros(Len(shp)), Zeros(Len(shp)), << >>, "none", 0, FALSE)}
      ELSE RollBody(shp, ax, psh)

\* in_data[idx]
Load(in, idx) == IF idx \in Range0(Len(in)) THEN At(in, idx) ELSE 0 - 1

\* the source offset work unit i of the launched kernel reads
SrcIndex(kern, i, size, ksh, tbl) ==
    IF kern = "RollAxisNone_forward" THEN RollAxisNoneIndex(i, size, ksh)
    ELSE At(tbl, i)

\* Map that scatters in_data[i] to the table's offset instead of gathering from it
MapScatter(kern, i, out, in, size, ksh, tbl, rq) ==
    LET t == SrcIndex(kern, i, size, ksh, tbl)
    IN  IF t \in Range0(Len(out))
          THEN [out EXCEPT ![t + 1] = KernelAssign(out[t + 1], rq, Load(in, i))]
          ELSE out

\* Map(i, ...) of the launched kernel: KERNEL_ASSIGN(out_data[i], req, in_data[...])
Map(kern, i, out, in, size, ksh, tbl, rq) ==
    [out EXCEPT ![i + 1] = KernelAssign(out[i + 1], rq,
                                        Load(in, SrcIndex(kern, i, size, ksh, tbl)))]

\* Kernel<...>::Launch(s, N, ...) run as one loop over i = from .. N-1
RECURSIVE KernelLaunch(_, _, _, _, _, _, _, _, _)
KernelLaunch(kern, N, from, out, in, size, ksh, tbl, rq) ==
    IF from >= N THEN out
    ELSE KernelLaunch(kern, N, from + 1, Map(kern, from, out, in, size, ksh, tbl, rq),
                      in, size, ksh, tbl, rq)

----------------------------------------------------------------------------
(* Inputs of the roll calls *)

DimSizes == 0 .. MaxDim
ShiftValues == (0 - MaxShift) .. MaxShift

RollShapes == UNION {SeqsOf(DimSizes, r) : r \in RollRanks}

\* axis values from one below -ndim to ndim, so that entries invalid on either side occur
AxisParams(ndim) ==
    {[has_value |-> FALSE, value |-> << >>]}
    \cup {[has_value |-> TRUE, value |-> v] :
            v \in UNION {SeqsOf((0 - ndim - 1) .. ndim, l) : l \in AxisLens}}

ShiftParams == UNION {SeqsOf(ShiftValues, l) : l \in ShiftLens}

----------------------------------------------------------------------------
(* Specification of the roll operator, the call taken as one step *)

Init ==
    /\ pc = "idle"
    /\ shape = << >> /\ axis = [has_value |-> FALSE, value |-> << >>]
    /\ shift = << >> /\ req = kNullOp
    /\ status = "none" /\ assigned = << >> /\ shifts = << >> /\ new_index = << >>
    /\ kernel = "none" /\ kshift = 0 /\ out_data = << >> /\ oob = FALSE
    /\ pending = {} /\ nwrites = << >> /\ nreads = << >>
    /\ v_num_args = 0 /\ v_inputs = << >> /\ v_out = [shape |-> << >>, data |-> << >>]
    /\ v_req = << >> /\ v_grads = << >> /\ v_status = "none"
    /\ t_req = kNullOp
    /\ t_in = [shape |-> << >>, data |-> << >>] /\ t_axes = [known |-> FALSE, value |-> << >>]
    /\ t_used = << >> /\ t_out = [shape |-> << >>, data |-> << >>]
    /\ t_count = 0 /\ t_status = "none"

\* NumpyRollCompute(attrs, ctx, inputs, req, outputs)
NumpyRollCompute ==
    /\ pc = "idle"
    /\ \E shp \in RollShapes, psh \in ShiftParams, rq \in Reqs :
         \E ax \in AxisParams(Len(shp)) :
           \E o \in RollPrep(shp, ax, psh) :
             LET n == Size(shp)
             IN  /\ shape' = shp /\ axis' = ax /\ shift' = psh /\ req' = rq
                 /\ assigned' = o.assigned /\ shifts' = o.shifts
                 /\ new_index' = o.new_index /\ kernel' = o.kernel
                 /\ kshift' = o.kshift /\ oob' = o.oob
                 /\ status' = IF o.status = "launch" THEN "done" ELSE o.status
                 /\ out_data' = IF o.status = "launch"
                                  THEN KernelLaunch(o.kernel, n, 0, OutInit(n), InData(n),
                                                    n, o.kshift, o.new_index, rq)
                                  ELSE OutInit(n)
    /\ pc' = "roll"
    /\ UNCHANGED <<pending, nwrites, nreads>>
    /\ UNCHANGED <<vstackVars, transposeVars>>

\* the caller drops the request-scoped state of the call
RollReturn ==
    /\ pc = "roll"
    /\ pc' = "idle"
    /\ shape' = << >> /\ axis' = [has_value |-> FALSE, value |-> << >>]
    /\ shift' = << >> /\ req' = kNullOp
    /\ status' = "none" /\ assigned' = << >> /\ shifts' = << >> /\ new_index' = << >>
    /\ kernel' = "none" /\ kshift' = 0 /\ out_data' = << >> /\ oob' = FALSE
    /\ UNCHANGED <<pending, nwrites, nreads>>
    /\ UNCHANGED <<vstackVars, transposeVars>>

Next == NumpyRollCompute \/ RollReturn

Spec == Init /\ [][Next]_vars

----------------------------------------------------------------------------
(* Reference semantics of a circular shift *)

\* row-major stride of axis k (zero-based): the product of the later axis sizes
Stride(shp, k) == ProdFrom(shp, k + 2)

\* index along axis k of the multi-index with row-major offset d
Coord(d, shp, k) == (d \div Stride(shp, k)) % At(shp, k)

RECURSIVE SumOver(_, _, _)
SumOver(f, lo, hi) == IF lo > hi THEN 0 ELSE f[lo] + SumOver(f, lo + 1, hi)

\* positions of the axis list that name axis k
Naming(k) ==
    {i \in 1 .. Len(axis.value) :
        (IF axis.value[i] < 0 THEN axis.value[i] + Len(shape) ELSE axis.value[i]) = k}

ShiftAt(i) == IF Len(shift) = 1 THEN shift[1] ELSE shift[i]

Maximum(S) == CHOOSE x \in S : \A y \in S : y <= x

\* the shift requested for axis k: 0 when the axis is not named; the shift of the
\* last position naming it when it is named (once, in a list without repetition)
Requested(k) ==
    IF Naming(k) = {} THEN 0 ELSE ShiftAt(Maximum(Naming(k)))

\* offset of the source multi-index ((j_k - s_k) mod dim_k) of destination offset d
RefSource(d) ==
    SumOver([k \in Range0(Len(shape)) |->
                ((Coord(d, shape, k) - Requested(k)) % At(shape, k)) * Stride(shape, k)],
            0, Len(shape) - 1)

\* every entry of the axis list lies in [-ndim, ndim)
AxesValid ==
    \A i \in 1 .. Len(axis.value) :
        axis.value[i] >= 0 - Len(shape) /\ axis.value[i] < Len(shape)

PerAxisDone ==
    pc = "roll" /\ axis.has_value /\ status = "done" /\ AxesValid

FlatDone ==
    pc = "roll" /\ ~axis.has_value /\ status = "done"

----------------------------------------------------------------------------
(* Claims about the roll call *)

RollFlatData(x, s) ==
    LET n == Len(x)
    IN  KernelLaunch("RollAxisNone_forward", n, 0, OutInit(n), x, n,
                     FlatShift(s, n), << >>, kWriteTo)

\* C2: flatten-mode roll of a non-empty buffer: work unit i reads source offset
\* (i - s) mod n, inside [0, n); rolling the result back by -s gives the input, and
\* rolling by s + k*n gives the same result as rolling by s.
C2_FlatRoll ==
    FlatDone =>
        LET n == Size(shape)
            s == shift[1]
        IN  /\ \A i \in Range0(n) :
                 LET idx == RollAxisNoneIndex(i, n, kshift)
                 IN  /\ idx \in Range0(n)
                     /\ idx = (i - s) % n
                     /\ (req = kWriteTo => At(out_data, i) = At(InData(n), idx))
            /\ (req = kWriteTo =>
                  /\ RollFlatData(out_data, 0 - s) = InData(n)
                  /\ \A k \in (0 - 2) .. 2 : RollFlatData(InData(n), s + k * n) = out_data)

\* a flat roll of four elements by -3
C2_Witness ==
    /\ FlatDone /\ req = kWriteTo
    /\ shape = <<2, 2>> /\ shift[1] = 0 - 3
    /\ kshift = 1
    /\ out_data = <<4, 1, 2, 3>>

\* C3: a per-axis request on a non-empty input with an axis entry outside
\* [-ndim, ndim) is rejected as a fatal error, before the shifts vector is indexed
\* by that entry and before any output element is written.
C3_InvalidAxisRejected ==
    (pc = "roll" /\ axis.has_value /\ Size(shape) # 0 /\ ~AxesValid) =>
        (status = "fatal" /\ ~oob /\ out_data = OutInit(Size(shape)))

ShiftLenMismatch ==
    axis.has_value /\ Len(shift) # 1 /\ Len(shift) # Len(axis.value)

\* C4 as stated: a shift list whose length is neither 1 nor that of the axis list
\* is rejected as a fatal error whatever the shape of the input.
C4_MismatchRejectedAnyShape ==
    (pc = "roll" /\ ShiftLenMismatch) =>
        (status = "fatal" /\ out_data = OutInit(Size(shape)))

\* C4 amended: on a non-empty input a shift list whose length is neither 1 nor that
\* of the axis list is rejected as a fatal error with nothing computed or written
\* (an empty input returns as a no-op before the lengths are looked at); a shift
\* list of length 1 with valid axes is accepted and its value is assigned to every
\* named axis, the other axes keeping 0.
C4_MismatchRejectedNonEmpty ==
    /\ (pc = "roll" /\ ShiftLenMismatch /\ Size(shape) # 0) =>
          (/\ status = "fatal" /\ kernel = "none" /\ new_index = << >>
           /\ out_data = OutInit(Size(shape)))
    /\ (pc = "roll" /\ ShiftLenMismatch /\ Size(shape) = 0) => status = "noop"
    /\ (pc = "roll" /\ axis.has_value /\ Len(shift) = 1 /\ Size(shape) # 0 /\ AxesValid) =>
          (/\ status = "done"
           /\ \A k \in Range0(Len(shape)) :
                At(assigned, k) = IF Naming(k) = {} THEN 0 ELSE shift[1])

\* two shifts for one axis on a non-empty input
C4_Witness ==
    /\ pc = "roll" /\ ShiftLenMismatch /\ Size(shape) # 0 /\ AxesValid
    /\ Len(shift) = 2 /\ Len(axis.value) = 1
    /\ status = "fatal"

\* C5: a roll call on an input with zero elements returns as a no-op for every
\* shift/axis configuration and write policy: no table, no kernel, no write, and
\* no modulo by a zero size.
C5_ZeroSizeNoOp ==
    (pc = "roll" /\ Size(shape) = 0) =>
        (/\ status = "noop" /\ kernel = "none" /\ new_index = << >>
         /\ out_data = OutInit(0))

\* a 2x0 input with an invalid axis and a mismatched shift list, accumulate policy
C5_Witness ==
    /\ pc = "roll" /\ shape = <<2, 0>> /\ req = kAddTo
    /\ axis.has_value /\ ~AxesValid /\ ShiftLenMismatch
    /\ status = "noop"

\* C9: after the 'keep shift in a legal range' loop every shifts[i] is the
\* requested shift reduced modulo shape[i], with 0 <= shifts[i] < shape[i].
C9_ShiftsLegal ==
    PerAxisDone =>
        \A i \in 1 .. Len(shape) :
            /\ shifts[i] = assigned[i] % shape[i]
            /\ 0 <= shifts[i] /\ shifts[i] < shape[i]

----------------------------------------------------------------------------
(* Specification of one roll launch, its work units taken in any order *)

\* NumpyRollCompute reaches Kernel<...>::Launch: N = outputs[0].Size() work units
RollLaunch ==
    /\ pc = "idle"
    /\ \E shp \in RollShapes, psh \in ShiftParams, rq \in Reqs :
         \E ax \in AxisParams(Len(shp)) :
           \E o \in RollPrep(shp, ax, psh) :
             LET n == Size(shp)
             IN  /\ o.status = "launch"
                 /\ shape' = shp /\ req' = rq
                 /\ new_index' = o.new_index /\ kernel' = o.kernel /\ kshift' = o.kshift
                 /\ out_data' = OutInit(n)
                 /\ pending' = Range0(n)
                 /\ nwrites' = Zeros(n) /\ nreads' = Zeros(n)
    /\ status' = "launch"
    /\ pc' = "kernel"
    /\ UNCHANGED <<axis, shift, assigned, shifts, oob>>
    /\ UNCHANGED <<vstackVars, transposeVars>>

\* one work unit: Map(i, out_data, in_data, ...)
WorkUnit(i) ==
    /\ pc = "kernel"
    /\ i \in pending
    /\ LET n == Size(shape)
           src == SrcIndex(kernel, i, n, kshift, new_index)
       IN  /\ out_data' = Map(kernel, i, out_data, InData(n), n, kshift, new_index, req)
           /\ nwrites' = IF req = kNullOp THEN nwrites
                         ELSE [nwrites EXCEPT ![i + 1] = @ + 1]
           /\ nreads' = IF req = kNullOp \/ src \notin Range0(n) THEN nreads
                        ELSE [nreads EXCEPT ![src + 1] = @ + 1]
    /\ pending' = pending \ {i}
    /\ UNCHANGED <<pc, shape, axis, shift, req, status, assigned, shifts, new_index,
                   kernel, kshift, oob>>
    /\ UNCHANGED <<vstackVars, transposeVars>>

\* the launch has completed and the call returns
LaunchReturn ==
    /\ pc = "kernel"
    /\ pending = {}
    /\ pc' = "idle"
    /\ shape' = << >> /\ req' = kNullOp /\ status' = "none"
    /\ new_index' = << >> /\ kernel' = "none" /\ kshift' = 0 /\ out_data' = << >>
    /\ nwrites' = << >> /\ nreads' = << >>
    /\ UNCHANGED <<pending, axis, shift, assigned, shifts, oob>>
    /\ UNCHANGED <<vstackVars, transposeVars>>

NextKernel ==
    \/ RollLaunch
    \/ \E i \in pending : WorkUnit(i)
    \/ LaunchReturn

SpecKernel == Init /\ [][NextKernel]_vars

\* the source offset work unit d reads, by the kernel's rule or table
Src(d) == SrcIndex(kernel, d, Size(shape), kshift, new_index)

\* C10: in one roll launch over a non-empty input the table has one entry per
\* offset and the unit -> source map is a bijection of [0, size); a destination
\* is written only by its own unit, exactly once, and a source is read exactly
\* once; whatever the order of the work units, the final output is the one the
\* sequential loop produces, for the overwrite and the accumulate policy.
C10_UnitsIndependent ==
    pc = "kernel" =>
        LET n == Size(shape)
        IN  /\ n > 0
            /\ (kernel = "RollAxis_forward" => Len(new_index) = n)
            /\ {Src(d) : d \in Range0(n)} = Range0(n)
            /\ \A d \in Range0(n) :
                 IF d \in pending
                   THEN At(nwrites, d) = 0 /\ At(out_data, d) = At(OutInit(n), d)
                   ELSE /\ At(nwrites, d) = IF req = kNullOp THEN 0 ELSE 1
                        /\ At(out_data, d) =
                             KernelAssign(At(OutInit(n), d), req, At(InData(n), Src(d)))
            /\ (pending = {} =>
                  /\ \A d \in Range0(n) : At(nreads, d) = IF req = kNullOp THEN 0 ELSE 1
                  /\ out_data = KernelLaunch(kernel, n, 0, OutInit(n), InData(n), n,
                                             kshift, new_index, req))

\* an accumulating 2x2 per-axis launch in which unit 0 is the last to run
C10_Witness ==
    /\ pc = "kernel" /\ kernel = "RollAxis_forward" /\ req = kAddTo
    /\ shape = <<2, 2>> /\ new_index = <<3, 2, 1, 0>>
    /\ pending = {0}
    /\ out_data = <<100, 203, 302, 401>>

----------------------------------------------------------------------------
(* NumpyVstack *)

Tensor(shp, dat) == [shape |-> shp, data |-> dat]

\* the forward loop's row view reshaping every rank-0/1 input to a column
RowViewColumn(t) ==
    IF Len(t.shape) = 0 \/ Len(t.shape) = 1
      THEN Tensor(<<Size(t.shape), 1>>, t.data)
      ELSE t

\* forward 'reshape if necessary': inputs[i].reshape(Shape2(1, Size())) for rank 0
\* or 1, the input itself otherwise; the view shares the input's data
RowView(t) ==
    IF Len(t.shape) = 0 \/ Len(t.shape) = 1
      THEN Tensor(<<1, Size(t.shape)>>, t.data)
      ELSE t

\* the backward loop's view without the reshape
GradViewAsIs(t) == t

\* backward 'reshape if necessary': the same view of every gradient slot
GradView(t) ==
    IF Len(t.shape) = 0 \/ Len(t.shape) = 1
      THEN Tensor(<<1, Size(t.shape)>>, t.data)
      ELSE t

\* the dimensions after axis 0
Trailing(shp) == SubSeq(shp, 2, Len(shp))

RECURSIVE RowsBefore(_, _)
\* rows of the views 1 .. i-1
RowsBefore(views, i) ==
    IF i <= 1 THEN 0 ELSE RowsBefore(views, i - 1) + views[i - 1].shape[1]

RECURSIVE ConcatData(_, _)
ConcatData(views, i) ==
    IF i > Len(views) THEN << >> ELSE views[i].data \o ConcatData(views, i + 1)

\* ConcatOp with dim = 0: the views must have at least one axis and agree on the
\* dimensions after axis 0
ConcatAccepts(views) ==
    /\ Len(views) >= 1
    /\ \A i \in 1 .. Len(views) :
         Len(views[i].shape) >= 1 /\ Trailing(views[i].shape) = Trailing(views[1].shape)

\* ConcatOp::Forward: the views one after the other along axis 0
ConcatForward(views) ==
    Tensor(<<RowsBefore(views, Len(views) + 1)>> \o Trailing(views[1].shape),
           ConcatData(views, 1))

\* ConcatOp::Backward accepts slots that tile the gradient along axis 0
ConcatBackwardAccepts(grad, views) ==
    /\ ConcatAccepts(views)
    /\ Len(grad.shape) >= 1
    /\ Trailing(views[1].shape) = Trailing(grad.shape)
    /\ RowsBefore(views, Len(views) + 1) = grad.shape[1]

\* ConcatOp::Backward: slot i receives its rows of the gradient under reqs[i]
ConcatBackward(grad, reqs, views) ==
    [i \in 1 .. Len(views) |->
        LET off == RowsBefore(views, i) * Size(Trailing(grad.shape))
        IN  Tensor(views[i].shape,
                   [d \in 1 .. Len(views[i].data) |->
                       KernelAssign(views[i].data[d], reqs[i], grad.data[off + d])])]

\* NumpyVstackForward: [status, out]
NumpyVstackForward(num_args, ins) ==
    IF Len(ins) # num_args
      THEN [status |-> "fatal", out |-> Tensor(<< >>, << >>)]
      ELSE LET data == [i \in 1 .. num_args |-> RowView(ins[i])]
           IN  IF ConcatAccepts(data)
                 THEN [status |-> "forward", out |-> ConcatForward(data)]
                 ELSE [status |-> "fatal", out |-> Tensor(<< >>, << >>)]

\* NumpyVstackBackward: [status, grads]; a view shares its slot's data, so what
\* the concatenation's inverse writes to view i is the new content of slot i
NumpyVstackBackward(num_args, grad, reqs, slots) ==
    IF Len(slots) # num_args \/ Len(reqs) # num_args
      THEN [status |-> "fatal", grads |-> slots]
      ELSE LET data == [i \in 1 .. num_args |-> GradView(slots[i])]
           IN  IF ConcatBackwardAccepts(grad, data)
                 THEN [status |-> "backward",
                       grads |-> [i \in 1 .. num_args |->
                                    Tensor(slots[i].shape,
                                           ConcatBackward(grad, reqs, data)[i].data)]]
                 ELSE [status |-> "fatal", grads |-> slots]

\* inputs: tensor i of a list carries the labels 100*i + offset
VstackShapes == UNION {SeqsOf(DimSizes, r) : r \in VstackRanks}

Labelled(shp, base) == Tensor(shp, [d \in 1 .. Size(shp) |-> base + d])

VstackInputs ==
    UNION {{[i \in 1 .. n |-> Labelled(shps[i], 100 * i)] : shps \in SeqsOf(VstackShapes, n)} :
             n \in 1 .. MaxArgs}

\* gradient slots before the backward call: the shapes of the inputs, own labels
SlotsFor(ins) == [i \in 1 .. Len(ins) |-> Labelled(ins[i].shape, 1000 * i)]

VstackForward ==
    /\ pc = "idle"
    /\ \E n \in 1 .. MaxArgs, ins \in VstackInputs :
         LET r == NumpyVstackForward(n, ins)
         IN  /\ v_num_args' = n /\ v_inputs' = ins
             /\ v_status' = r.status /\ v_out' = r.out
    /\ pc' = "vstack_fwd"
    /\ UNCHANGED <<v_req, v_grads>>
    /\ UNCHANGED <<rollVars, transposeVars>>

\* the gradient of the forward output flows back into slots shaped like the inputs
VstackBackward ==
    /\ pc = "vstack_fwd"
    /\ v_status = "forward"
    /\ \E reqs \in SeqsOf({kWriteTo, kAddTo}, v_num_args) :
         LET r == NumpyVstackBackward(v_num_args, v_out, reqs, SlotsFor(v_inputs))
         IN  /\ v_req' = reqs
             /\ v_status' = r.status /\ v_grads' = r.grads
    /\ pc' = "vstack_bwd"
    /\ UNCHANGED <<v_num_args, v_inputs, v_out>>
    /\ UNCHANGED <<rollVars, transposeVars>>

VstackReturn ==
    /\ pc \in {"vstack_fwd", "vstack_bwd"}
    /\ pc' = "idle"
    /\ v_num_args' = 0 /\ v_inputs' = << >> /\ v_out' = Tensor(<< >>, << >>)
    /\ v_req' = << >> /\ v_grads' = << >> /\ v_status' = "none"
    /\ UNCHANGED <<rollVars, transposeVars>>

NextVstack == VstackForward \/ VstackBackward \/ VstackReturn

SpecVstack == Init /\ [][NextVstack]_vars

\* rows and row length of input i seen as rows
RowsOf(t) == IF Len(t.shape) <= 1 THEN 1 ELSE t.shape[1]
RowLen(t) == IF Len(t.shape) <= 1 THEN Size(t.shape) ELSE Size(Trailing(t.shape))

RECURSIVE RowOffset(_, _)
RowOffset(ins, i) == IF i <= 1 THEN 0 ELSE RowOffset(ins, i - 1) + RowsOf(ins[i - 1])

\* C6: an accepted vstack forward call had num_args inputs; the output has the sum
\* of the inputs' row counts as its first dimension (one row per rank-0/1 input)
\* and the row shape of the inputs after it, and row r of input i is row
\* offset(i) + r of the output, element for element.
C6_VstackForward ==
    (pc = "vstack_fwd" /\ v_status = "forward") =>
        LET n == Len(v_inputs)
            w == RowLen(v_inputs[1])
        IN  /\ n = v_num_args
            /\ v_out.shape[1] = RowOffset(v_inputs, n + 1)
            /\ Trailing(v_out.shape) =
                 (IF Len(v_inputs[1].shape) <= 1 THEN <<Size(v_inputs[1].shape)>>
                  ELSE Trailing(v_inputs[1].shape))
            /\ Len(v_out.data) = RowOffset(v_inputs, n + 1) * w
            /\ \A i \in 1 .. n :
                 /\ RowLen(v_inputs[i]) = w
                 /\ \A r \in Range0(RowsOf(v_inputs[i])), c \in Range0(w) :
                      At(v_out.data, (RowOffset(v_inputs, i) + r) * w + c)
                        = At(v_inputs[i].data, r * w + c)

\* a (2,) input above a (2,2) input gives a (3,2) output
C6_Witness ==
    /\ pc = "vstack_fwd" /\ v_status = "forward"
    /\ Len(v_inputs) = 2
    /\ v_inputs[1].shape = <<2>> /\ v_inputs[2].shape = <<2, 2>>
    /\ v_out = Tensor(<<3, 2>>, <<101, 102, 201, 202, 203, 204>>)

\* C7: running the backward call on the forward output, with slots shaped like the
\* inputs, succeeds and gives slot i the content of input i under the overwrite
\* policy (the old content plus input i under the accumulate policy).
C7_VstackBackwardInverts ==
    pc = "vstack_bwd" =>
        /\ v_status = "backward"
        /\ Len(v_grads) = Len(v_inputs)
        /\ \A i \in 1 .. Len(v_inputs) :
             /\ v_grads[i].shape = v_inputs[i].shape
             /\ Len(v_grads[i].data) = Len(v_inputs[i].data)
             /\ \A d \in 1 .. Len(v_inputs[i].data) :
                  v_grads[i].data[d] =
                     KernelAssign(SlotsFor(v_inputs)[i].data[d], v_req[i], v_inputs[i].data[d])
             /\ (v_req[i] = kWriteTo => v_grads[i] = v_inputs[i])

\* the gradient of a (2,) over (2,2) stack split back with overwrite on both slots
C7_Witness ==
    /\ pc = "vstack_bwd" /\ v_status = "backward"
    /\ v_req = <<kWriteTo, kWriteTo>>
    /\ v_out.shape = <<3, 2>>
    /\ v_grads = <<Tensor(<<2>>, <<101, 102>>), Tensor(<<2, 2>>, <<201, 202, 203, 204>>)>>

----------------------------------------------------------------------------
(* NumpyTranspose *)

\* default axes rotated by one instead of reversed
DefaultAxesRotated(ndim) ==
    [i \in 1 .. ndim |-> i % ndim]

\* axes[i] = axes.ndim() - 1 - i
DefaultAxes(ndim) ==
    [i \in 1 .. ndim |-> ndim - 1 - (i - 1)]

\* axes is a bijection over [0, ndim)
IsPermutation(axes, ndim) ==
    Len(axes) = ndim /\ {axes[i] : i \in 1 .. Len(axes)} = Range0(ndim)

\* TransposeImpl: output axis i is input axis axes[i]
TransposeImpl(t, axes) ==
    LET ndim == Len(t.shape)
        oshape == [i \in 1 .. ndim |-> At(t.shape, axes[i])]
        src(d) == SumOver([i \in Range0(ndim) |->
                              Coord(d, oshape, i) * Stride(t.shape, At(axes, i))],
                          0, ndim - 1)
    IN  Tensor(oshape, [d \in 1 .. Size(t.shape) |-> At(t.data, src(d - 1))])

\* NumpyTranspose: [status, used, out]
NumpyTranspose(t, paxes, rq) ==
    IF rq # kWriteTo
      THEN [status |-> "fatal", used |-> << >>, out |-> Tensor(<< >>, << >>)]
      ELSE LET axes == IF paxes.known THEN paxes.value ELSE DefaultAxes(Len(t.shape))
           IN  IF IsPermutation(axes, Len(t.shape))
                 THEN [status |-> "done", used |-> axes, out |-> TransposeImpl(t, axes)]
                 ELSE [status |-> "fatal", used |-> axes, out |-> Tensor(<< >>, << >>)]

TransposeShapes == UNION {SeqsOf(DimSizes, r) : r \in TransposeRanks}

AxesParams(ndim) ==
    {[known |-> FALSE, value |-> << >>]}
    \cup {[known |-> TRUE, value |-> v] : v \in SeqsOf(Range0(ndim), ndim)}

\* the first NumpyTranspose call on a tensor
TransposeCall ==
    /\ pc = "idle"
    /\ \E shp \in TransposeShapes, rq \in Reqs :
         \E pa \in AxesParams(Len(shp)) :
           LET t == Labelled(shp, 0)
               r == NumpyTranspose(t, pa, rq)
           IN  /\ t_in' = t /\ t_axes' = pa /\ t_req' = rq
               /\ t_status' = r.status /\ t_used' = r.used /\ t_out' = r.out
    /\ t_count' = 1
    /\ pc' = "transpose"
    /\ UNCHANGED <<rollVars, vstackVars>>

\* a second call with the same attributes on the output of the first
TransposeAgain ==
    /\ pc = "transpose"
    /\ t_status = "done"
    /\ t_count = 1
    /\ LET r == NumpyTranspose(t_out, t_axes, t_req)
       IN  t_status' = r.status /\ t_used' = r.used /\ t_out' = r.out
    /\ t_count' = t_count + 1
    /\ UNCHANGED <<pc, t_in, t_axes, t_req>>
    /\ UNCHANGED <<rollVars, vstackVars>>

TransposeReturn ==
    /\ pc = "transpose"
    /\ pc' = "idle"
    /\ t_req' = kNullOp /\ t_in' = Tensor(<< >>, << >>)
    /\ t_axes' = [known |-> FALSE, value |-> << >>]
    /\ t_used' = << >> /\ t_out' = Tensor(<< >>, << >>)
    /\ t_count' = 0 /\ t_status' = "none"
    /\ UNCHANGED <<rollVars, vstackVars>>

NextTranspose == TransposeCall \/ TransposeAgain \/ TransposeReturn

SpecTranspose == Init /\ [][NextTranspose]_vars

Reverse(sq) == [i \in 1 .. Len(sq) |-> sq[Len(sq) + 1 - i]]

\* offset in t_in of the multi-index that is the reverse of the multi-index with
\* offset d in a tensor of the reversed shape
ReversedOffset(d) ==
    LET ndim == Len(t_in.shape)
        rshape == Reverse(t_in.shape)
    IN  SumOver([k \in Range0(ndim) |->
                    Coord(d, rshape, ndim - 1 - k) * Stride(t_in.shape, k)],
                0, ndim - 1)

\* C8: NumpyTranspose with unspecified axes and the overwrite policy succeeds and
\* uses the full reversal; one call gives the reversed shape with the element of
\* the reversed multi-index at every multi-index, two calls give back the
\* original shape and elements.
C8_DefaultTransposeRoundTrip ==
    (pc = "transpose" /\ ~t_axes.known /\ t_req = kWriteTo) =>
        LET ndim == Len(t_in.shape)
        IN  /\ t_status = "done"
            /\ \A i \in Range0(ndim) : At(t_used, i) = ndim - 1 - i
            /\ (t_count = 1 =>
                  /\ t_out.shape = Reverse(t_in.shape)
                  /\ \A d \in Range0(Size(t_in.shape)) :
                       At(t_out.data, d) = At(t_in.data, ReversedOffset(d)))
            /\ (t_count = 2 => t_out = t_in)

\* a 2x1x2 tensor after two default transposes
C8_Witness ==
    /\ pc = "transpose" /\ ~t_axes.known /\ t_req = kWriteTo
    /\ t_count = 2 /\ t_status = "done"
    /\ t_in.shape = <<2, 1, 2>>
    /\ t_out = t_in

====
